---- MODULE Spec2Model ----
(***************************************************************************)
(* The gamification store (useGamificationStore): the in-memory profile,   *)
(* the persisted profile document, and the asynchronous store operations   *)
(* with the remote requests they await.  One action per operation start    *)
(* (the synchronous code up to the first await) and one per continuation   *)
(* (the code that runs when the awaited request resolves or rejects).      *)
(* The food-log store (useFoodLogStore) is modelled the same way: the      *)
(* meals of the selected day, their daily totals and the meals collection. *)
(***************************************************************************)
EXTENDS Integers, Sequences, FiniteSets, TLC

\* ------------------------------------------------------------------ bounds
TicksPerDay == 2
MaxOps == 3
MaxSeqOps == 5
MaxPending == 2
MaxProbePoints == 3300
MaxProbeStep == 120
MaxStreak == 100
MaxStreakOps == 2
MaxFoodOps == 3
MaxTargetMeals == 1

\* ------------------------------------------------------------- basic values
Null == <<>>

Min(a, b) == IF a <= b THEN a ELSE b

\* A JavaScript Date is <<t>>, t in clock ticks; a missing date is Null.
SetHoursZero(d) == <<d[1] - (d[1] % TicksPerDay)>>

Yesterday(d) == <<d[1] - TicksPerDay>>

\* Firestore stores a Date as a Timestamp and hands a Timestamp back.
Timestamp_fromDate(d) == IF d = Null THEN Null ELSE <<"Timestamp", d[1]>>

Timestamp_toDate(ts) == IF ts = Null THEN Null ELSE <<ts[2]>>

theUser == [uid |-> "u1"]

NotAuthenticatedMsg == <<"User not authenticated">>

NotLoadedMsg == <<"User not authenticated or profile not loaded">>

RejectedMsg == <<"request rejected">>

\* ------------------------------------------------------------- achievements
Ach(id, category, targetValue, points) ==
  [id |-> id, category |-> category, progress |-> 0, targetValue |-> targetValue,
   isCompleted |-> FALSE, completedAt |-> Null, points |-> points]

defaultAchievements ==
  << Ach("first-log", "logging", 1, 10),
     Ach("week-streak", "consistency", 7, 25),
     Ach("month-streak", "consistency", 30, 100),
     Ach("macro-balance", "nutrition", 1, 20),
     Ach("scan-10", "logging", 10, 15),
     Ach("complete-profile", "special", 1, 5) >>

\* ----------------------------------------------------------------- level
levelThresholds == <<0, 100, 250, 450, 700, 1000, 1350, 1750, 2200, 2700, 3250>>

RECURSIVE LevelScan(_, _)
LevelScan(points, level) ==
  IF level < 0 THEN 1
  ELSE IF points >= levelThresholds[level + 1] THEN level + 1
  ELSE LevelScan(points, level - 1)

checkLevelUp_Off(points) == LevelScan(points - 1, Len(levelThresholds) - 1)

checkLevelUp(points) == LevelScan(points, Len(levelThresholds) - 1)

\* ------------------------------------------------------- sequence helpers
RECURSIVE FindIdx(_, _, _)
FindIdx(s, id, i) ==
  IF i > Len(s) THEN 0
  ELSE IF s[i].id = id THEN i
  ELSE FindIdx(s, id, i + 1)

\* Array.prototype.find by id: the index of the first match, 0 when none.
Find(s, id) == FindIdx(s, id, 1)

Ids(s) == {s[i].id : i \in 1..Len(s)}

FilterOut(s, id) == SelectSeq(s, LAMBDA c : c.id # id)

Remove(s, i) == SubSeq(s, 1, i - 1) \o SubSeq(s, i + 1, Len(s))

\* arrayUnion: adds the element unless an equal element is already there.
arrayUnion(s, e) == IF \E i \in 1..Len(s) : s[i] = e THEN s ELSE Append(s, e)

\* --------------------------------------------------------------- challenges
\* The catalog of challenge templates the challenges page offers to join.
\* Display-only fields (title, description, iconName, startDate, endDate) are
\* carried by no rule of the store and are left out of the records.
availableChallenges ==
  { [id |-> "balanced-three", targetValue |-> 3, points |-> 75],
    [id |-> "morning-entries", targetValue |-> 5, points |-> 40] }

\* ----------------------------------------------------- persisted document
ToDocAchievements(achs) ==
  [i \in 1..Len(achs) |->
     [achs[i] EXCEPT !.completedAt = Timestamp_fromDate(achs[i].completedAt)]]

ToDocChallenge(c) == [c EXCEPT !.completedAt = Timestamp_fromDate(c.completedAt)]

ToDocChallenges(cs) == [i \in 1..Len(cs) |-> ToDocChallenge(cs[i])]

ToDoc(p) ==
  [p EXCEPT !.lastLogDate = Timestamp_fromDate(p.lastLogDate),
            !.achievements = ToDocAchievements(p.achievements),
            !.activeChallenges = ToDocChallenges(p.activeChallenges),
            !.completedChallenges = ToDocChallenges(p.completedChallenges)]

FromDocDates(xs) ==
  [i \in 1..Len(xs) |-> [xs[i] EXCEPT !.completedAt = Timestamp_toDate(xs[i].completedAt)]]

\* fetchProfile's conversion of the document data to a GamificationProfile.
FromDoc(data) ==
  [data EXCEPT !.lastLogDate = Timestamp_toDate(data.lastLogDate),
               !.achievements = FromDocDates(data.achievements),
               !.activeChallenges = FromDocDates(data.activeChallenges),
               !.completedChallenges = FromDocDates(data.completedChallenges)]

\* A new profile that starts below the first level.
newProfile_LevelZero ==
  [userId |-> theUser.uid, streakDays |-> 0, longestStreak |-> 0, lastLogDate |-> Null,
   points |-> 0, level |-> 0, achievements |-> defaultAchievements,
   activeChallenges |-> <<>>, completedChallenges |-> <<>>]

newProfile ==
  [userId |-> theUser.uid, streakDays |-> 0, longestStreak |-> 0, lastLogDate |-> Null,
   points |-> 0, level |-> 1, achievements |-> defaultAchievements,
   activeChallenges |-> <<>>, completedChallenges |-> <<>>]

InitNow == TicksPerDay + 1

\* A document persisted by an earlier session: a six-day streak whose last log
\* was the day before the session starts, and a 'streak-7' consistency
\* achievement (the id updateStreak looks for) next to the seeded ones.
EarlierDoc ==
  ToDoc([newProfile EXCEPT
           !.streakDays = 6, !.longestStreak = 6,
           !.lastLogDate = Yesterday(SetHoursZero(<<InitNow>>)),
           !.points = 90, !.level = checkLevelUp(90),
           !.achievements = Append(defaultAchievements,
                                   Ach("streak-7", "consistency", 7, 25))])

\* A document created by fetchProfile six days before the session starts and
\* logged to on every day since: the seed achievements, a six-day streak and the
\* five bonuses of five points for the days two to six.
SeedStreakDoc ==
  ToDoc([newProfile EXCEPT
           !.streakDays = 6, !.longestStreak = 6,
           !.lastLogDate = Yesterday(SetHoursZero(<<InitNow>>)),
           !.points = 25, !.level = checkLevelUp(25)])

InitialDocs == {Null, EarlierDoc, SeedStreakDoc}

\* ------------------------------------------------------------------- state
VARIABLES
  user,                     \* useAuthStore's user: Null or theUser
  profile,                  \* the store's in-memory profile, Null before a load
  loading, error,           \* the store's loading flag and error field
  showAchievementModal, lastUnlockedAchievement,
  doc,                      \* the persisted gamification document, Null if none
  pending,                  \* the awaited remote requests, with their callers' locals
  now,                      \* the wall clock
  ops,                      \* the number of outside events (invocations, clock ticks) so far
  last,                     \* history: the latest step of an operation
  lvPoints, lvLevel,        \* an argument and the result of checkLevelUp
  meals, dailyTotals,       \* useFoodLogStore's meals of the selected day and their sum
  isLoading, foodError,     \* useFoodLogStore's isLoading flag and error field
  mealDocs,                 \* the persisted meals collection
  nextId                    \* the number of the next generated id

\* The food-log store's state and what it persists.
foodVars == <<meals, dailyTotals, isLoading, foodError, mealDocs, nextId>>

vars == <<user, profile, loading, error, showAchievementModal, lastUnlockedAchievement,
          doc, pending, now, ops, last, lvPoints, lvLevel, foodVars>>

\* The store's state as one value, threaded through the synchronous code of a step.
Store ==
  [profile |-> profile, loading |-> loading, error |-> error,
   showAchievementModal |-> showAchievementModal,
   lastUnlockedAchievement |-> lastUnlockedAchievement,
   pending |-> pending, threw |-> FALSE]

Install(S) ==
  /\ profile' = S.profile
  /\ loading' = S.loading
  /\ error' = S.error
  /\ showAchievementModal' = S.showAchievementModal
  /\ lastUnlockedAchievement' = S.lastUnlockedAchievement
  /\ pending' = S.pending

\* useFoodLogStore as created (lines 105-116), with no meal persisted yet.
emptyTotals == [calories |-> 0, protein |-> 0, carbs |-> 0, fat |-> 0]

InitFoodLog ==
  /\ meals = <<>>
  /\ dailyTotals = emptyTotals
  /\ isLoading = FALSE
  /\ foodError = Null
  /\ mealDocs = <<>>
  /\ nextId = 1

Init ==
  /\ user = theUser
  /\ profile = Null
  /\ loading = FALSE
  /\ error = Null
  /\ showAchievementModal = FALSE
  /\ lastUnlockedAchievement = Null
  /\ doc \in InitialDocs
  /\ pending = <<>>
  /\ now = InitNow
  /\ ops = 0
  /\ last = [step |-> "init", clean |-> TRUE]
  /\ lvPoints = 0
  /\ lvLevel = checkLevelUp(0)
  /\ InitFoodLog

\* ------------------------------------------------ operations: synchronous part
\* Each operator below is the code of one store operation from its call to its
\* first await, applied to the store state S with u the signed-in user and t the
\* clock.  It returns the store state after it: a request added to S.pending
\* carries the caller's locals; threw marks a throw caught by the operation.

Throw(S, msg, resetLoading) ==
  [S EXCEPT !.error = msg,
            !.loading = IF resetLoading THEN FALSE ELSE @,
            !.threw = TRUE]

Await(S, call) == [S EXCEPT !.pending = Append(@, call)]

\* addPoints keeping the level it read instead of recomputing it.
addPoints_call_KeepsLevel(S, u, points, parent) ==
  IF u = Null \/ S.profile = Null
  THEN Throw(S, NotLoadedMsg, TRUE)
  ELSE LET newPoints == S.profile.points + points
       IN Await([S EXCEPT !.loading = TRUE, !.error = Null],
                [op |-> "addPoints", user |-> u, profile |-> S.profile,
                 points |-> points, newPoints |-> newPoints,
                 newLevel |-> S.profile.level, parent |-> parent])

addPoints_call(S, u, points, parent) ==
  IF u = Null \/ S.profile = Null
  THEN Throw(S, NotLoadedMsg, TRUE)
  ELSE LET newPoints == S.profile.points + points
           newLevel == checkLevelUp(newPoints)
       IN Await([S EXCEPT !.loading = TRUE, !.error = Null],
                [op |-> "addPoints", user |-> u, profile |-> S.profile,
                 points |-> points, newPoints |-> newPoints, newLevel |-> newLevel,
                 parent |-> parent])

\* MarkCompleted leaving the progress as it was.
MarkCompleted_KeepsProgress(achs, achievementId, completedAt) ==
  [i \in 1..Len(achs) |->
     IF achs[i].id = achievementId
     THEN [achs[i] EXCEPT !.isCompleted = TRUE, !.completedAt = completedAt]
     ELSE achs[i]]

MarkCompleted(achs, achievementId, completedAt) ==
  [i \in 1..Len(achs) |->
     IF achs[i].id = achievementId
     THEN [achs[i] EXCEPT !.isCompleted = TRUE, !.progress = achs[i].targetValue,
                          !.completedAt = completedAt]
     ELSE achs[i]]

\* completeAchievement reporting an unknown id as an error.
completeAchievement_call_UnknownThrows(S, u, t, achievementId, parent) ==
  IF u = Null \/ S.profile = Null
  THEN Throw(S, NotLoadedMsg, FALSE)
  ELSE LET i == Find(S.profile.achievements, achievementId)
       IN IF i = 0
          THEN Throw(S, <<"Achievement not found">>, FALSE)
          ELSE IF S.profile.achievements[i].isCompleted
          THEN S
          ELSE Await(S, [op |-> "completeAchievement", user |-> u, profile |-> S.profile,
                         achievementId |-> achievementId,
                         achievement |-> S.profile.achievements[i],
                         completedAt |-> <<t>>, parent |-> parent])

completeAchievement_call(S, u, t, achievementId, parent) ==
  IF u = Null \/ S.profile = Null
  THEN Throw(S, NotLoadedMsg, FALSE)
  ELSE LET i == Find(S.profile.achievements, achievementId)
       IN IF i = 0 \/ S.profile.achievements[i].isCompleted
          THEN S
          ELSE Await(S, [op |-> "completeAchievement", user |-> u, profile |-> S.profile,
                         achievementId |-> achievementId,
                         achievement |-> S.profile.achievements[i],
                         completedAt |-> <<t>>, parent |-> parent])

\* SetProgress leaving the isCompleted flag as it was.
SetProgress_KeepsFlag(achs, achievementId, newProgress, isNowCompleted, date) ==
  [i \in 1..Len(achs) |->
     IF achs[i].id = achievementId
     THEN [achs[i] EXCEPT !.progress = newProgress,
                          !.completedAt = IF isNowCompleted THEN date ELSE Null]
     ELSE achs[i]]

SetProgress(achs, achievementId, newProgress, isNowCompleted, date) ==
  [i \in 1..Len(achs) |->
     IF achs[i].id = achievementId
     THEN [achs[i] EXCEPT !.progress = newProgress, !.isCompleted = isNowCompleted,
                          !.completedAt = IF isNowCompleted THEN date ELSE Null]
     ELSE achs[i]]

updateAchievementProgress_call(S, u, t, achievementId, progressAmount) ==
  IF u = Null \/ S.profile = Null
  THEN Throw(S, NotLoadedMsg, FALSE)
  ELSE LET i == Find(S.profile.achievements, achievementId)
       IN IF i = 0 \/ S.profile.achievements[i].isCompleted
          THEN S
          ELSE LET achievement == S.profile.achievements[i]
                   newProgress == Min(achievement.progress + progressAmount,
                                      achievement.targetValue)
                   isNowCompleted == newProgress >= achievement.targetValue
               IN Await(S, [op |-> "updateAchievementProgress", user |-> u,
                            profile |-> S.profile, achievementId |-> achievementId,
                            progressAmount |-> progressAmount,
                            achievement |-> achievement, newProgress |-> newProgress,
                            isNowCompleted |-> isNowCompleted,
                            sent |-> SetProgress(S.profile.achievements, achievementId,
                                                 newProgress, isNowCompleted, <<t>>)])

joinChallenge_call(S, u, challenge) ==
  IF u = Null \/ S.profile = Null
  THEN Throw(S, NotLoadedMsg, TRUE)
  ELSE Await([S EXCEPT !.loading = TRUE, !.error = Null],
             [op |-> "joinChallenge", user |-> u, profile |-> S.profile,
              newChallenge |-> [id |-> challenge.id, targetValue |-> challenge.targetValue,
                                points |-> challenge.points, currentProgress |-> 0,
                                isCompleted |-> FALSE, completedAt |-> Null]])

SetChallengeProgress(cs, challengeId, newProgress) ==
  [i \in 1..Len(cs) |->
     IF cs[i].id = challengeId THEN [cs[i] EXCEPT !.currentProgress = newProgress]
     ELSE cs[i]]

updateChallengeProgress_call(S, u, t, challengeId, progressAmount) ==
  IF u = Null \/ S.profile = Null
  THEN Throw(S, NotLoadedMsg, FALSE)
  ELSE LET i == Find(S.profile.activeChallenges, challengeId)
       IN IF i = 0 \/ S.profile.activeChallenges[i].isCompleted
          THEN S
          ELSE LET challenge == S.profile.activeChallenges[i]
                   newProgress == Min(challenge.currentProgress + progressAmount,
                                      challenge.targetValue)
                   isNowCompleted == newProgress >= challenge.targetValue
               IN Await(S, [op |-> "updateChallengeProgress", user |-> u,
                            profile |-> S.profile, challengeId |-> challengeId,
                            progressAmount |-> progressAmount, challenge |-> challenge,
                            newProgress |-> newProgress,
                            isNowCompleted |-> isNowCompleted,
                            updatedActiveChallenge |->
                              [challenge EXCEPT !.currentProgress = newProgress,
                                                !.isCompleted = TRUE,
                                                !.completedAt = <<t>>]])

\* updateStreak's streak rule: the new streakDays and longestStreak and whether
\* the streak was broken, from the profile read and today's date.  The rule takes
\* the two date comparisons as given: continues (the last log was yesterday) and
\* sameDay (the last log was today).
StreakRule(p, first, continues, sameDay) ==
  LET newStreakDays == IF first THEN 1
                       ELSE IF continues THEN p.streakDays + 1
                       ELSE IF sameDay THEN p.streakDays
                       ELSE 1
  IN [newStreakDays |-> newStreakDays,
      newLongestStreak |-> IF newStreakDays > p.longestStreak THEN newStreakDays
                           ELSE p.longestStreak,
      streakBroken |-> ~first /\ ~continues /\ ~sameDay]

\* NewStreak without the update of longestStreak.
NewStreak_KeepsLongest(p, today) ==
  LET first == p.lastLogDate = Null
      lastLog == SetHoursZero(p.lastLogDate)
      continues == ~first /\ lastLog = Yesterday(today)
  IN [StreakRule(p, first, continues, ~first /\ ~continues /\ lastLog = today)
        EXCEPT !.newLongestStreak = p.longestStreak]

\* NewStreak with a second log of the same day counted as a continuation.
NewStreak_SameDayContinues(p, today) ==
  LET first == p.lastLogDate = Null
      lastLog == SetHoursZero(p.lastLogDate)
      continues == ~first /\ (lastLog = Yesterday(today) \/ lastLog = today)
  IN StreakRule(p, first, continues, FALSE)

\* NewStreak with any earlier day counted as yesterday.
NewStreak_AnyEarlierDayContinues(p, today) ==
  LET first == p.lastLogDate = Null
      lastLog == SetHoursZero(p.lastLogDate)
      continues == ~first /\ lastLog[1] < today[1]
  IN StreakRule(p, first, continues, ~first /\ ~continues /\ lastLog = today)

\* NewStreak with the first log ever not counted as a day.
NewStreak_FirstLogIsZero(p, today) ==
  LET first == p.lastLogDate = Null
      lastLog == SetHoursZero(p.lastLogDate)
      continues == ~first /\ lastLog = Yesterday(today)
  IN [StreakRule(p, first, continues, ~first /\ ~continues /\ lastLog = today)
        EXCEPT !.newStreakDays = IF first THEN 0 ELSE @]

NewStreak(p, today) ==
  LET first == p.lastLogDate = Null
      lastLog == SetHoursZero(p.lastLogDate)
      continues == ~first /\ lastLog = Yesterday(today)
  IN StreakRule(p, first, continues, ~first /\ ~continues /\ lastLog = today)

updateStreak_call(S, u, t) ==
  IF u = Null \/ S.profile = Null
  THEN Throw(S, NotLoadedMsg, TRUE)
  ELSE LET today == SetHoursZero(<<t>>)
           n == NewStreak(S.profile, today)
       IN Await([S EXCEPT !.loading = TRUE, !.error = Null],
                [op |-> "updateStreak", user |-> u, profile |-> S.profile,
                 today |-> today, newStreakDays |-> n.newStreakDays,
                 newLongestStreak |-> n.newLongestStreak,
                 streakBroken |-> n.streakBroken])

\* fetchProfile reading the document without testing for a user.
fetchProfile_call_NoUserGuard(S, u) ==
  Await([S EXCEPT !.loading = TRUE, !.error = Null],
        [op |-> "fetchProfile", user |-> u, request |-> "getDoc"])

fetchProfile_call(S, u) ==
  IF u = Null
  THEN Throw(S, NotAuthenticatedMsg, TRUE)
  ELSE Await([S EXCEPT !.loading = TRUE, !.error = Null],
             [op |-> "fetchProfile", user |-> u, request |-> "getDoc"])

\* ------------------------------------------------------- operations: invoked
\* The inputs the operations are invoked with.
AchievementIds == {"first-log", "no-such-achievement"}

AchievementAmounts == {-1, 1}

JoinableChallenges == {c \in availableChallenges : c.id = "balanced-three"}

ChallengeAmounts == {-1, 1, 3}

PointAmounts == {10}

\* An operation may be invoked while fewer than cap requests are awaited and
\* fewer than most operations have been invoked.
CanInvoke(cap, most) == ops < most /\ Len(pending) < cap

\* A step of the environment leaves no operation's step to look back at.
Idle == last' = [step |-> "idle", clean |-> last.clean]

Pre ==
  [user |-> user, profile |-> profile, loading |-> loading, error |-> error,
   showAchievementModal |-> showAchievementModal,
   lastUnlockedAchievement |-> lastUnlockedAchievement, requests |-> Len(pending)]

\* The operation `call` was invoked and ran, up to its first await, to S.
Invoked(S, call) ==
  /\ Install(S)
  /\ ops' = ops + 1
  /\ last' = [step |-> IF S.threw THEN "threw"
                       ELSE IF S.pending = pending THEN "return" ELSE "await",
              call |-> call, pre |-> Pre,
              clean |-> (pending # <<>> => last.clean) /\ ~S.threw]
  /\ UNCHANGED <<user, doc, now, lvPoints, lvLevel, foodVars>>

fetchProfile(cap, most) ==
  /\ CanInvoke(cap, most)
  /\ Invoked(fetchProfile_call(Store, user), [op |-> "fetchProfile"])

updateStreak(cap, most) ==
  /\ CanInvoke(cap, most)
  /\ Invoked(updateStreak_call(Store, user, now), [op |-> "updateStreak"])

addPoints(cap, most) ==
  /\ CanInvoke(cap, most)
  /\ \E points \in PointAmounts :
       Invoked(addPoints_call(Store, user, points, Null),
               [op |-> "addPoints", points |-> points])

completeAchievement(cap, most) ==
  /\ CanInvoke(cap, most)
  /\ \E achievementId \in AchievementIds :
       Invoked(completeAchievement_call(Store, user, now, achievementId, Null),
               [op |-> "completeAchievement", achievementId |-> achievementId])

updateAchievementProgress(cap, most) ==
  /\ CanInvoke(cap, most)
  /\ \E achievementId \in AchievementIds, progressAmount \in AchievementAmounts :
       Invoked(updateAchievementProgress_call(Store, user, now, achievementId,
                                              progressAmount),
               [op |-> "updateAchievementProgress", achievementId |-> achievementId,
                progressAmount |-> progressAmount])

joinChallenge(cap, most) ==
  /\ CanInvoke(cap, most)
  /\ \E challenge \in JoinableChallenges :
       Invoked(joinChallenge_call(Store, user, challenge),
               [op |-> "joinChallenge", challenge |-> challenge])

updateChallengeProgress(cap, most) ==
  /\ CanInvoke(cap, most)
  /\ \E challenge \in JoinableChallenges, progressAmount \in ChallengeAmounts :
       Invoked(updateChallengeProgress_call(Store, user, now, challenge.id,
                                            progressAmount),
               [op |-> "updateChallengeProgress", challengeId |-> challenge.id,
                progressAmount |-> progressAmount])

closeAchievementModal(cap, most) ==
  /\ CanInvoke(cap, most)
  /\ showAchievementModal
  /\ showAchievementModal' = FALSE
  /\ ops' = ops + 1
  /\ Idle
  /\ UNCHANGED <<user, profile, loading, error, lastUnlockedAchievement, doc, pending,
                 now, lvPoints, lvLevel, foodVars>>

\* The auth store's logoutUser and loginUser, as far as this store reads them.
logoutUser(cap, most) ==
  /\ CanInvoke(cap, most)
  /\ user # Null
  /\ user' = Null
  /\ ops' = ops + 1
  /\ Idle
  /\ UNCHANGED <<profile, loading, error, showAchievementModal, lastUnlockedAchievement,
                 doc, pending, now, lvPoints, lvLevel, foodVars>>

loginUser(cap, most) ==
  /\ CanInvoke(cap, most)
  /\ user = Null
  /\ user' = theUser
  /\ ops' = ops + 1
  /\ Idle
  /\ UNCHANGED <<profile, loading, error, showAchievementModal, lastUnlockedAchievement,
                 doc, pending, now, lvPoints, lvLevel, foodVars>>

\* Time passes, also while requests are awaited.
Tick(most) ==
  /\ ops < most
  /\ now' = now + 1
  /\ ops' = ops + 1
  /\ Idle
  /\ UNCHANGED <<user, profile, loading, error, showAchievementModal,
                 lastUnlockedAchievement, doc, pending, lvPoints, lvLevel, foodVars>>

\* --------------------------------------------------- operations: continuations
\* StreakPoints without the milestone of a hundred days.
StreakPoints_NoHundred(newStreakDays) ==
  IF newStreakDays = 7 THEN 25
  ELSE IF newStreakDays = 30 THEN 100
  ELSE IF newStreakDays % 10 = 0 THEN 50
  ELSE 5

\* The bonus updateStreak awards for a continued streak (lines 242-247).
StreakPoints(newStreakDays) ==
  IF newStreakDays = 7 THEN 25
  ELSE IF newStreakDays = 30 THEN 100
  ELSE IF newStreakDays = 100 THEN 300
  ELSE IF newStreakDays % 10 = 0 THEN 50
  ELSE 5

\* updateStreak's forEach over the achievements it read (lines 225-237), from i on.
RECURSIVE CheckStreakAchievements(_, _, _, _, _)
CheckStreakAchievements(S, u, t, c, i) ==
  IF i > Len(c.profile.achievements) THEN S
  ELSE LET achievement == c.profile.achievements[i]
           S1 == IF achievement.category = "consistency" /\ ~achievement.isCompleted
                 THEN IF achievement.id = "streak-7" /\ c.newStreakDays >= 7
                      THEN completeAchievement_call(S, u, t, "streak-7", c)
                      ELSE IF achievement.id = "streak-30" /\ c.newStreakDays >= 30
                      THEN completeAchievement_call(S, u, t, "streak-30", c)
                      ELSE IF achievement.id = "streak-100" /\ c.newStreakDays >= 100
                      THEN completeAchievement_call(S, u, t, "streak-100", c)
                      ELSE S
                 ELSE S
       IN CheckStreakAchievements(S1, u, t, c, i + 1)

\* The awaited request pending[i] is taken off; its caller's code runs to S.
Resolved(i, S) ==
  /\ Install(S)
  /\ last' = [step |-> "resolved", call |-> pending[i],
              clean |-> last.clean /\ ~S.threw]
  /\ UNCHANGED <<user, now, ops, lvPoints, lvLevel, foodVars>>

Taken(i) == [Store EXCEPT !.pending = Remove(pending, i)]

updateStreak_resolved ==
  \E i \in 1..Len(pending) :
    LET c == pending[i]
        S1 == [Taken(i) EXCEPT
                 !.profile = IF @ = Null THEN Null
                             ELSE [@ EXCEPT !.streakDays = c.newStreakDays,
                                            !.longestStreak = c.newLongestStreak,
                                            !.lastLogDate = c.today],
                 !.loading = FALSE]
        S2 == CheckStreakAchievements(S1, user, now, c, 1)
        S3 == IF ~c.streakBroken /\ c.newStreakDays > 1
              THEN addPoints_call(S2, user, StreakPoints(c.newStreakDays), c)
              ELSE S2
    IN /\ c.op = "updateStreak"
       /\ doc # Null
       /\ doc' = [doc EXCEPT !.streakDays = c.newStreakDays,
                             !.longestStreak = c.newLongestStreak,
                             !.lastLogDate = Timestamp_fromDate(c.today)]
       /\ Resolved(i, S3)

\* addPoints adding its amount to the points the store and the document hold
\* when its write resolves.
addPoints_resolved_Increment ==
  \E i \in 1..Len(pending) :
    LET c == pending[i]
        S1 == [Taken(i) EXCEPT
                 !.profile = IF @ = Null THEN Null
                             ELSE [@ EXCEPT !.points = @ + c.points,
                                            !.level = checkLevelUp(profile.points + c.points)],
                 !.loading = FALSE]
    IN /\ c.op = "addPoints"
       /\ doc # Null
       /\ doc' = [doc EXCEPT !.points = @ + c.points,
                             !.level = checkLevelUp(doc.points + c.points)]
       /\ Resolved(i, S1)

addPoints_resolved ==
  \E i \in 1..Len(pending) :
    LET c == pending[i]
        S1 == [Taken(i) EXCEPT
                 !.profile = IF @ = Null THEN Null
                             ELSE [@ EXCEPT !.points = c.newPoints, !.level = c.newLevel],
                 !.loading = FALSE]
    IN /\ c.op = "addPoints"
       /\ doc # Null
       /\ doc' = [doc EXCEPT !.points = c.newPoints, !.level = c.newLevel]
       /\ Resolved(i, S1)

completeAchievement_resolved ==
  \E i \in 1..Len(pending) :
    LET c == pending[i]
        updatedAchievements ==
          MarkCompleted(c.profile.achievements, c.achievementId, c.completedAt)
        S1 == [Taken(i) EXCEPT
                 !.profile = IF @ = Null THEN Null
                             ELSE [@ EXCEPT !.achievements = updatedAchievements],
                 !.showAchievementModal = TRUE,
                 !.lastUnlockedAchievement =
                    updatedAchievements[Find(updatedAchievements, c.achievementId)]]
    IN /\ c.op = "completeAchievement"
       /\ doc # Null
       /\ doc' = [doc EXCEPT !.achievements = ToDocAchievements(updatedAchievements)]
       /\ Resolved(i, addPoints_call(S1, user, c.achievement.points, c))

updateAchievementProgress_resolved ==
  \E i \in 1..Len(pending) :
    LET c == pending[i]
        updatedAchievements ==
          SetProgress(c.profile.achievements, c.achievementId, c.newProgress,
                      c.isNowCompleted, <<now>>)
        S1 == [Taken(i) EXCEPT
                 !.profile = IF @ = Null THEN Null
                             ELSE [@ EXCEPT !.achievements = updatedAchievements]]
        S2 == [S1 EXCEPT
                 !.showAchievementModal = TRUE,
                 !.lastUnlockedAchievement =
                    updatedAchievements[Find(updatedAchievements, c.achievementId)]]
    IN /\ c.op = "updateAchievementProgress"
       /\ doc # Null
       /\ doc' = [doc EXCEPT !.achievements = ToDocAchievements(c.sent)]
       /\ Resolved(i, IF c.isNowCompleted
                      THEN addPoints_call(S2, user, c.achievement.points, c)
                      ELSE S1)

joinChallenge_resolved ==
  \E i \in 1..Len(pending) :
    LET c == pending[i]
        S1 == [Taken(i) EXCEPT
                 !.profile = IF @ = Null THEN Null
                             ELSE [@ EXCEPT !.activeChallenges =
                                              Append(@, c.newChallenge)],
                 !.loading = FALSE]
    IN /\ c.op = "joinChallenge"
       /\ doc # Null
       /\ doc' = [doc EXCEPT !.activeChallenges =
                               arrayUnion(@, ToDocChallenge(c.newChallenge))]
       /\ Resolved(i, S1)

\* MoveToCompleted without the removal from activeChallenges.
MoveToCompleted_KeepsActive(p, c) ==
  [p EXCEPT !.completedChallenges = Append(@, c.updatedActiveChallenge)]

\* The profile after updateChallengeProgress's set() for a completed challenge.
MoveToCompleted(p, c) ==
  [p EXCEPT !.activeChallenges = FilterOut(@, c.challengeId),
            !.completedChallenges = Append(@, c.updatedActiveChallenge)]

updateChallengeProgress_resolved ==
  \E i \in 1..Len(pending) :
    LET c == pending[i]
        S1 == [Taken(i) EXCEPT
                 !.profile = IF @ = Null THEN Null ELSE MoveToCompleted(@, c)]
        S2 == [Taken(i) EXCEPT
                 !.profile =
                    IF @ = Null THEN Null
                    ELSE [@ EXCEPT
                            !.activeChallenges =
                               SetChallengeProgress(@, c.challengeId, c.newProgress)]]
    IN /\ c.op = "updateChallengeProgress"
       /\ doc # Null
       /\ doc' = IF c.isNowCompleted
                 THEN [doc EXCEPT
                         !.activeChallenges =
                            ToDocChallenges(FilterOut(c.profile.activeChallenges,
                                                      c.challengeId)),
                         !.completedChallenges =
                            arrayUnion(@, ToDocChallenge(c.updatedActiveChallenge))]
                 ELSE [doc EXCEPT
                         !.activeChallenges =
                            ToDocChallenges(SetChallengeProgress(
                              c.profile.activeChallenges, c.challengeId, c.newProgress))]
       /\ Resolved(i, IF c.isNowCompleted
                      THEN addPoints_call(S1, user, c.challenge.points, c)
                      ELSE S2)

\* fetchProfile after its getDoc: the document is installed, or a new profile is
\* built and written with setDoc.
fetchProfile_resolved ==
  \E i \in 1..Len(pending) :
    LET c == pending[i]
        S1 == [Taken(i) EXCEPT !.profile = FromDoc(doc), !.loading = FALSE]
        S2 == Await(Taken(i), [op |-> "fetchProfile", user |-> c.user,
                               request |-> "setDoc", newProfile |-> newProfile])
    IN /\ c.op = "fetchProfile" /\ c.request = "getDoc"
       /\ Resolved(i, IF doc # Null THEN S1 ELSE S2)
       /\ UNCHANGED doc

fetchProfile_created ==
  \E i \in 1..Len(pending) :
    LET c == pending[i]
        S1 == [Taken(i) EXCEPT !.profile = c.newProfile, !.loading = FALSE]
    IN /\ c.op = "fetchProfile" /\ c.request = "setDoc"
       /\ doc' = ToDoc(c.newProfile)
       /\ Resolved(i, S1)

\* An awaited request rejects: the catch block of the operation that awaits it.
CatchResetsLoading == {"fetchProfile", "updateStreak", "addPoints", "joinChallenge"}

Rejected ==
  \E i \in 1..Len(pending) :
    LET c == pending[i]
    IN /\ Install([Taken(i) EXCEPT
                     !.error = RejectedMsg,
                     !.loading = IF c.op \in CatchResetsLoading THEN FALSE ELSE @])
       /\ last' = [step |-> "rejected", call |-> c, clean |-> FALSE]
       /\ UNCHANGED <<user, doc, now, ops, lvPoints, lvLevel, foodVars>>

\* ------------------------------------------------------------ specifications
NextCap(cap, most) ==
  \/ fetchProfile(cap, most)
  \/ updateStreak(cap, most)
  \/ addPoints(cap, most)
  \/ completeAchievement(cap, most)
  \/ updateAchievementProgress(cap, most)
  \/ joinChallenge(cap, most)
  \/ updateChallengeProgress(cap, most)
  \/ logoutUser(cap, most)
  \/ loginUser(cap, most)
  \/ closeAchievementModal(cap, most)
  \/ Tick(most)
  \/ updateStreak_resolved
  \/ addPoints_resolved
  \/ completeAchievement_resolved
  \/ updateAchievementProgress_resolved
  \/ joinChallenge_resolved
  \/ updateChallengeProgress_resolved
  \/ fetchProfile_resolved
  \/ fetchProfile_created
  \/ Rejected

\* Operations may be invoked while earlier ones are still awaiting.
Next == NextCap(MaxPending, MaxOps)

Spec == Init /\ [][Next]_vars

\* Every operation is invoked only after the ones before it have finished.
NextSeq == NextCap(1, MaxSeqOps)

SpecSeq == Init /\ [][NextSeq]_vars

\* checkLevelUp applied to successive point totals.
InitLevel ==
  /\ Init
  /\ doc = Null

LevelStep ==
  /\ \E d \in 1..MaxProbeStep :
       /\ lvPoints + d <= MaxProbePoints
       /\ lvPoints' = lvPoints + d
  /\ lvLevel' = checkLevelUp(lvPoints')
  /\ UNCHANGED <<user, profile, loading, error, showAchievementModal,
                 lastUnlockedAchievement, doc, pending, now, ops, last, foodVars>>

SpecLevel == InitLevel /\ [][LevelStep]_vars

\* A session that loads a profile with any streak of up to MaxStreak days, last
\* logged to yesterday, today or two days ago, and logs today.
StreakDoc(n, lastLog) ==
  ToDoc([newProfile EXCEPT !.streakDays = n, !.longestStreak = n,
                           !.lastLogDate = lastLog])

StreakDocs ==
  LET today == SetHoursZero(<<InitNow>>)
  IN {Null} \cup {StreakDoc(n, lastLog) :
                    n \in 1..MaxStreak,
                    lastLog \in {today, Yesterday(today), Yesterday(Yesterday(today))}}

InitStreak ==
  /\ user = theUser
  /\ profile = Null
  /\ loading = FALSE
  /\ error = Null
  /\ showAchievementModal = FALSE
  /\ lastUnlockedAchievement = Null
  /\ doc \in StreakDocs
  /\ pending = <<>>
  /\ now = InitNow
  /\ ops = 0
  /\ last = [step |-> "init", clean |-> TRUE]
  /\ lvPoints = 0
  /\ lvLevel = checkLevelUp(0)
  /\ InitFoodLog

NextStreak ==
  \/ fetchProfile(1, MaxStreakOps)
  \/ updateStreak(1, MaxStreakOps)
  \/ fetchProfile_resolved
  \/ fetchProfile_created
  \/ updateStreak_resolved
  \/ addPoints_resolved

SpecStreak == InitStreak /\ [][NextStreak]_vars

\* ============================================================ food-log store
\* useFoodLogStore: the meals of the selected day, their daily totals, and the
\* persisted meals collection.  Nutrition values are counted in hundredths of
\* a unit, so that 52.5 kcal is 5250.  Of a meal and of a food item the records
\* keep the fields the store computes with; createdAt and updatedAt, which no
\* rule of the store reads, are left out.

MealNotFoundMsg == <<"Meal not found">>

FoodItemNotFoundMsg == <<"Food item not found">>

FoodItemInNoMealMsg == <<"Food item not found in any meal">>

\* Math.round(x), and Math.round(x * 10) / 10, of a value of x hundredths.
MathRound(x) == ((x + 50) \div 100) * 100

RoundToTenth(x) == ((x + 5) \div 10) * 10

\* The object spread { ...r, ...u }.
Spread(r, u) ==
  [k \in DOMAIN r \cup DOMAIN u |-> IF k \in DOMAIN u THEN u[k] ELSE r[k]]

defaultMealTypes == <<"breakfast", "lunch", "dinner", "snacks">>

mealOrder(mealType) ==
  CASE mealType = "breakfast" -> 1
    [] mealType = "lunch" -> 2
    [] mealType = "dinner" -> 3
    [] mealType = "snacks" -> 4
    [] OTHER -> 99

\* Array.prototype.sort with fetchMealsForDate's comparator (lines 209-219): a
\* stable sort by mealOrder.
RECURSIVE InsertByMealOrder(_, _, _)
InsertByMealOrder(s, m, i) ==
  IF i > Len(s) THEN Append(s, m)
  ELSE IF mealOrder(s[i].mealType) > mealOrder(m.mealType)
       THEN SubSeq(s, 1, i - 1) \o <<m>> \o SubSeq(s, i, Len(s))
       ELSE InsertByMealOrder(s, m, i + 1)

RECURSIVE SortByMealOrder(_)
SortByMealOrder(s) ==
  IF s = <<>> THEN <<>>
  ELSE InsertByMealOrder(SortByMealOrder(SubSeq(s, 1, Len(s) - 1)), s[Len(s)], 1)

\* A food item as the store keeps it and as the meal document keeps it.
ToFirestoreItem(f) == [f EXCEPT !.addedAt = Timestamp_fromDate(f.addedAt)]

FromFirestoreItem(f) == [f EXCEPT !.addedAt = Timestamp_toDate(f.addedAt)]

ToFirestoreItems(fs) == [i \in 1..Len(fs) |-> ToFirestoreItem(fs[i])]

\* The document addMeal creates (lines 243-254), under the id addDoc gave it.
\* The meal types addMeal is called with are lower-case already.
newMeal(id, u, mealType, date) ==
  [id |-> id, userId |-> u.uid, date |-> Timestamp_fromDate(date),
   mealType |-> mealType, foodItems |-> <<>>,
   totalCalories |-> 0, totalProtein |-> 0, totalCarbs |-> 0, totalFat |-> 0]

\* The meal fetchMealsForDate builds for a meal it had created (lines 155-167).
CreatedMeal(mealId, u, mealType, date) ==
  [id |-> mealId, userId |-> u.uid, date |-> date, mealType |-> mealType,
   foodItems |-> <<>>,
   totalCalories |-> 0, totalProtein |-> 0, totalCarbs |-> 0, totalFat |-> 0]

\* The meal fetchMealsForDate builds from a meal document (lines 188-203).
MealOfDoc(mealDoc) ==
  [id |-> mealDoc.id, userId |-> mealDoc.userId,
   date |-> Timestamp_toDate(mealDoc.date), mealType |-> mealDoc.mealType,
   foodItems |-> [i \in 1..Len(mealDoc.foodItems) |->
                    FromFirestoreItem(mealDoc.foodItems[i])],
   totalCalories |-> mealDoc.totalCalories, totalProtein |-> mealDoc.totalProtein,
   totalCarbs |-> mealDoc.totalCarbs, totalFat |-> mealDoc.totalFat]

\* The documents fetchMealsForDate's query selects (lines 137-142).
MealsQuery(docs, u, date) ==
  SelectSeq(docs, LAMBDA d : /\ d.userId = u.uid
                             /\ SetHoursZero(Timestamp_toDate(d.date)) = SetHoursZero(date))

RECURSIVE SumField(_, _)
SumField(s, field) ==
  IF s = <<>> THEN 0 ELSE s[1][field] + SumField(Tail(s), field)

\* The food-log store's state as one value, threaded through a step's code.
FoodStore ==
  [meals |-> meals, dailyTotals |-> dailyTotals, isLoading |-> isLoading,
   error |-> foodError, pending |-> pending, threw |-> FALSE]

FoodInstall(F) ==
  /\ meals' = F.meals
  /\ dailyTotals' = F.dailyTotals
  /\ isLoading' = F.isLoading
  /\ foodError' = F.error
  /\ pending' = F.pending

\* A throw caught by the operation's catch block.
FoodThrow(F, msg) == [F EXCEPT !.error = msg, !.threw = TRUE]

calculateDailyTotals(F, ms) ==
  [F EXCEPT !.dailyTotals =
     [calories |-> MathRound(SumField(ms, "totalCalories")),
      protein |-> RoundToTenth(SumField(ms, "totalProtein")),
      carbs |-> RoundToTenth(SumField(ms, "totalCarbs")),
      fat |-> RoundToTenth(SumField(ms, "totalFat"))]]

\* A meal with the food items and totals an item operation computed.
WithItems(m, fs, c) ==
  [m EXCEPT !.foodItems = fs,
            !.totalCalories = c.newTotalCalories,
            !.totalProtein = c.newTotalProtein,
            !.totalCarbs = c.newTotalCarbs,
            !.totalFat = c.newTotalFat]

\* -------------------------------------- food-log operations: synchronous part
fetchMealsForDate_call(F, u, date) ==
  IF u = Null THEN [FoodThrow(F, NotAuthenticatedMsg) EXCEPT !.isLoading = FALSE]
  ELSE Await([F EXCEPT !.isLoading = TRUE, !.error = Null],
             [op |-> "fetchMealsForDate", user |-> u, date |-> date])

\* fetchMealsForDate's loop over defaultMealTypes from the k-th on (lines
\* 151-168), u being the user addMeal reads, and what follows the loop.
RECURSIVE CreateDefaultMeals(_, _, _, _, _)
CreateDefaultMeals(F, u, c, k, newMeals) ==
  IF k > Len(defaultMealTypes)
  THEN calculateDailyTotals([F EXCEPT !.meals = newMeals, !.isLoading = FALSE], newMeals)
  ELSE IF u = Null
  THEN CreateDefaultMeals([F EXCEPT !.error = NotAuthenticatedMsg], u, c, k + 1,
                          Append(newMeals,
                                 CreatedMeal(Null, c.user, defaultMealTypes[k], c.date)))
  ELSE Await(F, [op |-> "addMeal", parent |-> c, k |-> k, newMeals |-> newMeals])

updateMeal_call(F, u, mealId, updates) ==
  IF u = Null THEN FoodThrow(F, NotAuthenticatedMsg)
  ELSE IF Find(F.meals, mealId) = 0 THEN FoodThrow(F, MealNotFoundMsg)
  ELSE Await(F, [op |-> "updateMeal", mealId |-> mealId, updates |-> updates])

deleteMeal_call(F, u, mealId) ==
  IF u = Null THEN FoodThrow(F, NotAuthenticatedMsg)
  ELSE Await(F, [op |-> "deleteMeal", mealId |-> mealId])

addFoodItem_call(F, u, t, id, mealId, item) ==
  IF u = Null THEN FoodThrow(F, NotAuthenticatedMsg)
  ELSE LET foodItem == Spread(item, [id |-> id, addedAt |-> <<t>>])
           i == Find(F.meals, mealId)
           meal == F.meals[i]
       IN IF i = 0 THEN FoodThrow(F, MealNotFoundMsg)
          ELSE Await(F, [op |-> "addFoodItem", mealId |-> mealId,
                         foodItem |-> foodItem,
                         newTotalCalories |-> meal.totalCalories + foodItem.calories,
                         newTotalProtein |-> meal.totalProtein + foodItem.protein,
                         newTotalCarbs |-> meal.totalCarbs + foodItem.carbs,
                         newTotalFat |-> meal.totalFat + foodItem.fat])

updateFoodItem_call(F, u, mealId, itemId, updates) ==
  IF u = Null THEN FoodThrow(F, NotAuthenticatedMsg)
  ELSE LET i == Find(F.meals, mealId)
           meal == F.meals[i]
           j == Find(meal.foodItems, itemId)
           foodItem == meal.foodItems[j]
           updatedItem == Spread(foodItem, updates)
       IN IF i = 0 THEN FoodThrow(F, MealNotFoundMsg)
          ELSE IF j = 0 THEN FoodThrow(F, FoodItemNotFoundMsg)
          ELSE Await(F, [op |-> "updateFoodItem", mealId |-> mealId,
                         updatedFoodItems |->
                           [n \in 1..Len(meal.foodItems) |->
                              IF meal.foodItems[n].id = itemId THEN updatedItem
                              ELSE meal.foodItems[n]],
                         newTotalCalories |->
                           meal.totalCalories + (updatedItem.calories - foodItem.calories),
                         newTotalProtein |->
                           meal.totalProtein + (updatedItem.protein - foodItem.protein),
                         newTotalCarbs |->
                           meal.totalCarbs + (updatedItem.carbs - foodItem.carbs),
                         newTotalFat |->
                           meal.totalFat + (updatedItem.fat - foodItem.fat)])

\* The index of the first meal that holds the item, 0 when none does.
RECURSIVE FindMealOfItem(_, _, _)
FindMealOfItem(ms, itemId, i) ==
  IF i > Len(ms) THEN 0
  ELSE IF Find(ms[i].foodItems, itemId) # 0 THEN i
  ELSE FindMealOfItem(ms, itemId, i + 1)

deleteFoodItem_call(F, u, itemId) ==
  IF u = Null THEN FoodThrow(F, NotAuthenticatedMsg)
  ELSE LET i == FindMealOfItem(F.meals, itemId, 1)
           meal == F.meals[i]
           foodItem == meal.foodItems[Find(meal.foodItems, itemId)]
       IN IF i = 0 THEN FoodThrow(F, FoodItemInNoMealMsg)
          ELSE Await(F, [op |-> "deleteFoodItem", mealId |-> meal.id,
                         updatedFoodItems |-> FilterOut(meal.foodItems, itemId),
                         newTotalCalories |-> meal.totalCalories - foodItem.calories,
                         newTotalProtein |-> meal.totalProtein - foodItem.protein,
                         newTotalCarbs |-> meal.totalCarbs - foodItem.carbs,
                         newTotalFat |-> meal.totalFat - foodItem.fat])

\* ------------------------------------------------ food-log operations: inputs
\* The day the food-log page shows.
SelectedDates == {<<InitNow>>}

\* Food items as the food page submits them: 78 kcal, and 52.5 kcal.
OfferedItems ==
  { [foodId |-> "egg", servingQty |-> 1,
     calories |-> 7800, protein |-> 630, carbs |-> 60, fat |-> 530],
    [foodId |-> "apple", servingQty |-> 1,
     calories |-> 5250, protein |-> 30, carbs |-> 1380, fat |-> 20] }

\* An edit of a food item: two servings of the first.
ItemUpdates ==
  { [servingQty |-> 2,
     calories |-> 15600, protein |-> 1260, carbs |-> 120, fat |-> 1060] }

MealUpdates == { [mealType |-> "brunch"], [totalCalories |-> 10000] }

NoSuchMeal == <<"meal", 0>>

NoSuchItem == <<"item", 0>>

\* The meals an operation may name: the first ones on the page, and an unknown one.
TargetMeals == {meals[i].id : i \in 1..Min(Len(meals), MaxTargetMeals)} \cup {NoSuchMeal}

TargetItems ==
  UNION {Ids(meals[i].foodItems) : i \in 1..Min(Len(meals), MaxTargetMeals)}
    \cup {NoSuchItem}

\* The meal documents of an earlier session: the four default meals, empty.
EarlierMealDocs ==
  [k \in 1..Len(defaultMealTypes) |->
     newMeal(<<"meal", k>>, theUser, defaultMealTypes[k], <<InitNow>>)]

InitialMealDocs == {<<>>, EarlierMealDocs}

\* ---------------------------------------------- food-log operations: actions
\* The food-log operation `call` was invoked and ran, up to its first await, to F.
FoodInvoked(F, call) ==
  /\ FoodInstall(F)
  /\ ops' = ops + 1
  /\ last' = [step |-> IF F.threw THEN "threw"
                       ELSE IF F.pending = pending THEN "return" ELSE "await",
              call |-> call,
              clean |-> (pending # <<>> => last.clean) /\ ~F.threw]
  /\ UNCHANGED <<user, profile, loading, error, showAchievementModal,
                 lastUnlockedAchievement, doc, now, lvPoints, lvLevel, mealDocs>>

fetchMealsForDate(cap, most) ==
  /\ CanInvoke(cap, most)
  /\ \E date \in SelectedDates :
       FoodInvoked(fetchMealsForDate_call(FoodStore, user, date),
                   [op |-> "fetchMealsForDate", date |-> date])
  /\ UNCHANGED nextId

updateMeal(cap, most) ==
  /\ CanInvoke(cap, most)
  /\ \E mealId \in TargetMeals, updates \in MealUpdates :
       FoodInvoked(updateMeal_call(FoodStore, user, mealId, updates),
                   [op |-> "updateMeal", mealId |-> mealId, updates |-> updates])
  /\ UNCHANGED nextId

deleteMeal(cap, most) ==
  /\ CanInvoke(cap, most)
  /\ \E mealId \in TargetMeals :
       FoodInvoked(deleteMeal_call(FoodStore, user, mealId),
                   [op |-> "deleteMeal", mealId |-> mealId])
  /\ UNCHANGED nextId

\* The id addFoodItem generates (line 340) is taken to be fresh.
addFoodItem(cap, most) ==
  /\ CanInvoke(cap, most)
  /\ \E mealId \in TargetMeals, item \in OfferedItems :
       FoodInvoked(addFoodItem_call(FoodStore, user, now, <<"item", nextId>>, mealId, item),
                   [op |-> "addFoodItem", mealId |-> mealId, item |-> item])
  /\ nextId' = IF user = Null THEN nextId ELSE nextId + 1

updateFoodItem(cap, most) ==
  /\ CanInvoke(cap, most)
  /\ \E mealId \in TargetMeals, itemId \in TargetItems, updates \in ItemUpdates :
       FoodInvoked(updateFoodItem_call(FoodStore, user, mealId, itemId, updates),
                   [op |-> "updateFoodItem", mealId |-> mealId, itemId |-> itemId,
                    updates |-> updates])
  /\ UNCHANGED nextId

deleteFoodItem(cap, most) ==
  /\ CanInvoke(cap, most)
  /\ \E itemId \in TargetItems :
       FoodInvoked(deleteFoodItem_call(FoodStore, user, itemId),
                   [op |-> "deleteFoodItem", itemId |-> itemId])
  /\ UNCHANGED nextId

\* ----------------------------------------- food-log operations: continuations
\* The awaited request pending[i] is taken off; its caller's code runs to F.  The
\* operation has completed unless that code awaits again.
FoodResolved(i, F) ==
  /\ FoodInstall(F)
  /\ last' = [step |-> IF Len(F.pending) = Len(pending) THEN "continued" ELSE "resolved",
              call |-> pending[i],
              clean |-> last.clean /\ ~F.threw]
  /\ UNCHANGED <<user, profile, loading, error, showAchievementModal,
                 lastUnlockedAchievement, doc, now, ops, lvPoints, lvLevel>>

FoodTaken(i) == [FoodStore EXCEPT !.pending = Remove(pending, i)]

\* The meal document with the given id, and the documents with d in its place.
MealDoc(mealId) == mealDocs[Find(mealDocs, mealId)]

UpdateDoc(docs, mealId, d) ==
  [n \in 1..Len(docs) |-> IF docs[n].id = mealId THEN d ELSE docs[n]]

\* getDocs resolves (lines 144-224).
fetchMealsForDate_resolved ==
  \E i \in 1..Len(pending) :
    LET c == pending[i]
        snapshot == MealsQuery(mealDocs, c.user, c.date)
        found == SortByMealOrder([n \in 1..Len(snapshot) |-> MealOfDoc(snapshot[n])])
    IN /\ c.op = "fetchMealsForDate"
       /\ FoodResolved(i,
            IF snapshot = <<>>
            THEN CreateDefaultMeals(FoodTaken(i), user, c, 1, <<>>)
            ELSE calculateDailyTotals(
                   [FoodTaken(i) EXCEPT !.meals = found, !.isLoading = FALSE], found))
       /\ UNCHANGED <<mealDocs, nextId>>

\* addMeal's addDoc resolves (lines 256-257); fetchMealsForDate's loop goes on.
addMeal_resolved ==
  \E i \in 1..Len(pending) :
    LET c == pending[i]
        mealId == <<"meal", nextId>>
        mealType == defaultMealTypes[c.k]
    IN /\ c.op = "addMeal"
       /\ mealDocs' = Append(mealDocs, newMeal(mealId, user, mealType, c.parent.date))
       /\ nextId' = nextId + 1
       /\ FoodResolved(i,
            CreateDefaultMeals(FoodTaken(i), user, c.parent, c.k + 1,
                               Append(c.newMeals,
                                      CreatedMeal(mealId, c.parent.user, mealType,
                                                  c.parent.date))))

\* updateDoc resolves only for a document that exists.
updateMeal_resolved ==
  \E i \in 1..Len(pending) :
    LET c == pending[i]
        F == FoodTaken(i)
    IN /\ c.op = "updateMeal"
       /\ Find(mealDocs, c.mealId) # 0
       /\ mealDocs' = UpdateDoc(mealDocs, c.mealId, Spread(MealDoc(c.mealId), c.updates))
       /\ FoodResolved(i,
            [F EXCEPT !.meals =
               [n \in 1..Len(F.meals) |->
                  IF F.meals[n].id = c.mealId THEN Spread(F.meals[n], c.updates)
                  ELSE F.meals[n]]])
       /\ UNCHANGED nextId

deleteMeal_resolved ==
  \E i \in 1..Len(pending) :
    LET c == pending[i]
        F == FoodTaken(i)
        updatedMeals == FilterOut(F.meals, c.mealId)
    IN /\ c.op = "deleteMeal"
       /\ mealDocs' = FilterOut(mealDocs, c.mealId)
       /\ FoodResolved(i, calculateDailyTotals([F EXCEPT !.meals = updatedMeals],
                                               updatedMeals))
       /\ UNCHANGED nextId

\* addFoodItem's updateDoc resolves (lines 363-403).
addFoodItem_resolved ==
  \E i \in 1..Len(pending) :
    LET c == pending[i]
        F == FoodTaken(i)
        Added(m) == WithItems(m, Append(m.foodItems, c.foodItem), c)
        F1 == [F EXCEPT !.meals =
                 [n \in 1..Len(F.meals) |->
                    IF F.meals[n].id = c.mealId THEN Added(F.meals[n]) ELSE F.meals[n]]]
        updatedMeals == [n \in 1..Len(F1.meals) |->
                           IF F1.meals[n].id = c.mealId THEN Added(F1.meals[n])
                           ELSE F1.meals[n]]
    IN /\ c.op = "addFoodItem"
       /\ Find(mealDocs, c.mealId) # 0
       /\ mealDocs' = UpdateDoc(mealDocs, c.mealId,
                                WithItems(MealDoc(c.mealId),
                                          arrayUnion(MealDoc(c.mealId).foodItems,
                                                     ToFirestoreItem(c.foodItem)),
                                          c))
       /\ FoodResolved(i, calculateDailyTotals(F1, updatedMeals))
       /\ UNCHANGED nextId

\* The code updateFoodItem and deleteFoodItem share after their updateDoc (lines
\* 459-499 and 552-592): the items and totals computed before it are written.
WriteItems(i) ==
  LET c == pending[i]
      F == FoodTaken(i)
      Written(m) == WithItems(m, c.updatedFoodItems, c)
      F1 == [F EXCEPT !.meals =
               [n \in 1..Len(F.meals) |->
                  IF F.meals[n].id = c.mealId THEN Written(F.meals[n]) ELSE F.meals[n]]]
      updatedMeals == [n \in 1..Len(F1.meals) |->
                         IF F1.meals[n].id = c.mealId THEN Written(F1.meals[n])
                         ELSE F1.meals[n]]
  IN /\ Find(mealDocs, c.mealId) # 0
     /\ mealDocs' = UpdateDoc(mealDocs, c.mealId,
                              WithItems(MealDoc(c.mealId),
                                        ToFirestoreItems(c.updatedFoodItems), c))
     /\ FoodResolved(i, calculateDailyTotals(F1, updatedMeals))
     /\ UNCHANGED nextId

updateFoodItem_resolved ==
  \E i \in 1..Len(pending) : pending[i].op = "updateFoodItem" /\ WriteItems(i)

deleteFoodItem_resolved ==
  \E i \in 1..Len(pending) : pending[i].op = "deleteFoodItem" /\ WriteItems(i)

\* An awaited request of the food-log store rejects.  addMeal catches it and
\* returns '' to fetchMealsForDate's loop (lines 259-262); every other operation
\* sets error in its catch block, fetchMealsForDate resetting isLoading as well.
FoodRejected ==
  \E i \in 1..Len(pending) :
    LET c == pending[i]
        F == [FoodTaken(i) EXCEPT !.error = RejectedMsg]
    IN /\ FoodInstall(
            IF c.op = "addMeal"
            THEN CreateDefaultMeals(F, user, c.parent, c.k + 1,
                                    Append(c.newMeals,
                                           CreatedMeal(Null, c.parent.user,
                                                       defaultMealTypes[c.k],
                                                       c.parent.date)))
            ELSE [F EXCEPT !.isLoading = IF c.op = "fetchMealsForDate" THEN FALSE ELSE @])
       /\ last' = [step |-> "rejected", call |-> c, clean |-> FALSE]
       /\ UNCHANGED <<user, profile, loading, error, showAchievementModal,
                      lastUnlockedAchievement, doc, now, ops, lvPoints, lvLevel,
                      mealDocs, nextId>>

\* ------------------------------------------------- food-log specifications
InitFood ==
  /\ user = theUser
  /\ profile = Null
  /\ loading = FALSE
  /\ error = Null
  /\ showAchievementModal = FALSE
  /\ lastUnlockedAchievement = Null
  /\ doc = Null
  /\ pending = <<>>
  /\ now = InitNow
  /\ ops = 0
  /\ last = [step |-> "init", clean |-> TRUE]
  /\ lvPoints = 0
  /\ lvLevel = checkLevelUp(0)
  /\ meals = <<>>
  /\ dailyTotals = emptyTotals
  /\ isLoading = FALSE
  /\ foodError = Null
  /\ mealDocs \in InitialMealDocs
  /\ nextId = Len(mealDocs) + 1

\* The operations on food items, on meals loaded by fetchMealsForDate.
NextFoodItems ==
  \/ fetchMealsForDate(MaxPending, MaxFoodOps)
  \/ addFoodItem(MaxPending, MaxFoodOps)
  \/ updateFoodItem(MaxPending, MaxFoodOps)
  \/ deleteFoodItem(MaxPending, MaxFoodOps)
  \/ fetchMealsForDate_resolved
  \/ addMeal_resolved
  \/ addFoodItem_resolved
  \/ updateFoodItem_resolved
  \/ deleteFoodItem_resolved
  \/ FoodRejected

SpecFoodItems == InitFood /\ [][NextFoodItems]_vars

\* Every operation that changes the meals list or a meal's totals.
NextFood ==
  \/ NextFoodItems
  \/ updateMeal(MaxPending, MaxFoodOps)
  \/ deleteMeal(MaxPending, MaxFoodOps)
  \/ updateMeal_resolved
  \/ deleteMeal_resolved

SpecFood == InitFood /\ [][NextFood]_vars

\* ------------------------------------------------------------------- claims
\* The operation a request belongs to, through the operations that awaited it.
RECURSIVE Root(_)
Root(c) ==
  IF "parent" \in DOMAIN c /\ c.parent # Null THEN Root(c.parent) ELSE c

\* The latest step was the continuation of a resolved request of operation op.
ResolvedOf(op) == last.step = "resolved" /\ last.call.op = op

\* The latest step was an invocation of operation op from outside.
InvokedOf(op) == last.step \in {"await", "return", "threw"} /\ last.call.op = op

CalendarDay(d) == d[1] \div TicksPerDay

\* C1: in every reachable state longestStreak >= streakDays, in the in-memory
\* profile and in the persisted document.
C1_LongestAtLeastStreak ==
  /\ profile # Null => profile.longestStreak >= profile.streakDays
  /\ doc # Null => doc.longestStreak >= doc.streakDays

C1_Witness ==
  /\ ResolvedOf("updateStreak")
  /\ profile.streakDays > last.call.profile.longestStreak
  /\ profile.longestStreak = profile.streakDays

\* C2: an updateStreak call that found lastLogDate on today's calendar date
\* leaves streakDays and longestStreak at the values it found.
C2_SameDayUnchanged ==
  (/\ ResolvedOf("updateStreak")
   /\ last.call.profile.lastLogDate # Null
   /\ CalendarDay(last.call.profile.lastLogDate) = CalendarDay(last.call.today))
  => /\ profile.streakDays = last.call.profile.streakDays
     /\ profile.longestStreak = last.call.profile.longestStreak

C2_Witness ==
  /\ ResolvedOf("updateStreak")
  /\ last.call.profile.lastLogDate # Null
  /\ CalendarDay(last.call.profile.lastLogDate) = CalendarDay(last.call.today)
  /\ profile.streakDays >= 1

\* C3: updateStreak sets streakDays to the old value + 1 when lastLogDate is the
\* day before today, to 1 when it is two or more days before today, and to 1
\* when there is no lastLogDate.
C3_StreakTransition ==
  ResolvedOf("updateStreak") =>
    LET p == last.call.profile
        today == CalendarDay(last.call.today)
    IN /\ p.lastLogDate = Null => profile.streakDays = 1
       /\ (p.lastLogDate # Null /\ CalendarDay(p.lastLogDate) = today - 1)
            => profile.streakDays = p.streakDays + 1
       /\ (p.lastLogDate # Null /\ CalendarDay(p.lastLogDate) <= today - 2)
            => profile.streakDays = 1

C3_Witness ==
  /\ ResolvedOf("updateStreak")
  /\ last.call.profile.lastLogDate # Null
  /\ CalendarDay(last.call.profile.lastLogDate) <= CalendarDay(last.call.today) - 2
  /\ last.call.profile.streakDays > 1
  /\ profile.streakDays = 1

C3_WitnessContinues ==
  /\ ResolvedOf("updateStreak")
  /\ last.call.profile.lastLogDate # Null
  /\ CalendarDay(last.call.profile.lastLogDate) = CalendarDay(last.call.today) - 1
  /\ profile.streakDays = last.call.profile.streakDays + 1

C3_WitnessFirst ==
  /\ ResolvedOf("updateStreak")
  /\ last.call.profile.lastLogDate = Null
  /\ profile.streakDays = 1

\* C4: checkLevelUp returns the largest i+1 with points >= levelThresholds[i]; it
\* is non-decreasing in points, 1 at 0 points, 2 at 100, 11 at 3250 and 11 at
\* every total above 3250.
LargestTier(points) ==
  CHOOSE l \in 1..Len(levelThresholds) :
    /\ points >= levelThresholds[l]
    /\ \A m \in 1..Len(levelThresholds) : points >= levelThresholds[m] => m <= l

Count(s, id) == Cardinality({i \in 1..Len(s) : s[i].id = id})

\* C5: an updateAchievementProgress (updateChallengeProgress) call made for an
\* id that is already completed changes nothing: neither the progress nor the
\* completedAt of that achievement (challenge), nor the points.
C5_CompletedIsFinal ==
  /\ (/\ InvokedOf("updateAchievementProgress")
      /\ last.pre.profile # Null
      /\ LET i == Find(last.pre.profile.achievements, last.call.achievementId)
         IN i # 0 /\ last.pre.profile.achievements[i].isCompleted)
     => profile = last.pre.profile /\ Len(pending) = last.pre.requests
  /\ (/\ ResolvedOf("updateChallengeProgress")
      /\ last.call.challengeId \in Ids(last.call.profile.completedChallenges))
     => /\ profile.completedChallenges = last.call.profile.completedChallenges
        /\ profile.activeChallenges = last.call.profile.activeChallenges
  /\ (/\ ResolvedOf("addPoints")
      /\ last.call.parent # Null
      /\ last.call.parent.op = "updateChallengeProgress"
      /\ last.call.parent.challengeId
           \in Ids(last.call.parent.profile.completedChallenges))
     => profile.points = last.call.parent.profile.points

\* C6 as stated: completeAchievement with an id that is not in
\* profile.achievements leaves the profile, the error field and the achievement
\* modal unchanged and issues no remote request.
UnknownIdCompleted ==
  /\ InvokedOf("completeAchievement")
  /\ last.pre.profile # Null
  /\ Find(last.pre.profile.achievements, last.call.achievementId) = 0

NothingChanged ==
  /\ profile = last.pre.profile
  /\ error = last.pre.error
  /\ showAchievementModal = last.pre.showAchievementModal
  /\ lastUnlockedAchievement = last.pre.lastUnlockedAchievement
  /\ Len(pending) = last.pre.requests

C6_UnknownIdNoEffect_AsStated == UnknownIdCompleted => NothingChanged

\* C6, amended: the same while a user is signed in; while no user is signed in
\* the call records its error and changes nothing else.
C6_UnknownIdNoEffect ==
  UnknownIdCompleted =>
    IF last.pre.user # Null
    THEN NothingChanged /\ last.step = "return"
    ELSE /\ profile = last.pre.profile
         /\ error = NotLoadedMsg
         /\ showAchievementModal = last.pre.showAchievementModal
         /\ lastUnlockedAchievement = last.pre.lastUnlockedAchievement
         /\ Len(pending) = last.pre.requests

C6_Witness ==
  /\ UnknownIdCompleted
  /\ last.pre.user # Null
  /\ last.step = "return"
  /\ last.pre.error # Null

\* C7: from streakDays = 6, lastLogDate = yesterday and an uncompleted
\* consistency achievement 'streak-7', one updateStreak call ends, when all the
\* requests it started have resolved, with streakDays = 7, 'streak-7' completed
\* and points = the old points + the achievement's reward + 25.
StreakSevenRun(c) ==
  /\ c.op = "updateStreak"
  /\ c.profile.streakDays = 6
  /\ c.profile.lastLogDate # Null
  /\ CalendarDay(c.profile.lastLogDate) = CalendarDay(c.today) - 1
  /\ LET i == Find(c.profile.achievements, "streak-7")
     IN /\ i # 0
        /\ c.profile.achievements[i].category = "consistency"
        /\ ~c.profile.achievements[i].isCompleted

C7_StreakSevenAwardsBoth ==
  (/\ pending = <<>>
   /\ last.step = "resolved"
   /\ last.clean
   /\ StreakSevenRun(Root(last.call)))
  => LET c == Root(last.call)
         a == profile.achievements[Find(profile.achievements, "streak-7")]
     IN /\ profile.streakDays = 7
        /\ a.isCompleted
        /\ profile.points = c.profile.points + a.points + 25

\* C8: joinChallenge with a template whose id is already in activeChallenges or
\* in completedChallenges leaves both collections as they were.
C8_JoinRejectsKnownId ==
  (/\ ResolvedOf("joinChallenge")
   /\ last.call.newChallenge.id \in
        Ids(last.call.profile.activeChallenges)
          \cup Ids(last.call.profile.completedChallenges))
  => /\ profile.activeChallenges = last.call.profile.activeChallenges
     /\ profile.completedChallenges = last.call.profile.completedChallenges

\* C9: after joinChallenge(template) and updateChallengeProgress with
\* progressAmount = targetValue the challenge is in completedChallenges with
\* isCompleted and currentProgress = targetValue, is not in activeChallenges, and
\* points have grown by the challenge's reward; in every state on the way the
\* challenge is in exactly one of the two collections.
FreshlyJoinedAdvance(c) ==
  /\ c.op = "updateChallengeProgress"
  /\ c.progressAmount = c.challenge.targetValue
  /\ c.challenge.currentProgress = 0
  /\ Count(c.profile.activeChallenges, c.challengeId) = 1
  /\ Count(c.profile.completedChallenges, c.challengeId) = 0

InActiveOnly(p, id) ==
  Count(p.activeChallenges, id) = 1 /\ Count(p.completedChallenges, id) = 0

InCompletedOnly(p, id) ==
  /\ Count(p.activeChallenges, id) = 0
  /\ Count(p.completedChallenges, id) = 1
  /\ LET c == p.completedChallenges[Find(p.completedChallenges, id)]
     IN c.isCompleted /\ c.currentProgress = c.targetValue

C9_JoinThenComplete ==
  /\ \A i \in 1..Len(pending) :
       FreshlyJoinedAdvance(pending[i]) => InActiveOnly(profile, pending[i].challengeId)
  /\ (ResolvedOf("updateChallengeProgress") /\ FreshlyJoinedAdvance(last.call))
     => /\ InCompletedOnly(profile, last.call.challengeId)
        /\ profile.points = last.call.profile.points
  /\ (/\ ResolvedOf("addPoints")
      /\ last.call.parent # Null
      /\ FreshlyJoinedAdvance(last.call.parent))
     => /\ InCompletedOnly(profile, last.call.parent.challengeId)
        /\ profile.points = last.call.parent.profile.points
                              + last.call.parent.challenge.points

C9_Witness ==
  /\ ResolvedOf("addPoints")
  /\ last.call.parent # Null
  /\ FreshlyJoinedAdvance(last.call.parent)
  /\ pending = <<>>
  /\ profile.points = last.call.parent.profile.points + 75

\* C10: no step of any interleaving of the operations lowers the profile's
\* points, and points are never negative.
C10_PointsNeverDecrease ==
  [][(profile # Null /\ profile' # Null)
       => (profile'.points >= profile.points /\ profile'.points >= 0)]_vars

\* C11: in every reachable state the level is the level function of the points,
\* in the in-memory profile and in the persisted document.
C11_LevelMatchesPoints ==
  /\ profile # Null => profile.level = checkLevelUp(profile.points)
  /\ doc # Null => doc.level = checkLevelUp(doc.points)

C11_Witness ==
  /\ ResolvedOf("addPoints")
  /\ profile # Null
  /\ profile.level > last.call.profile.level
  /\ doc.level = profile.level

\* C12: a challenge id is moved from activeChallenges to completedChallenges at
\* most once, and an id that is in completedChallenges is never in
\* activeChallenges afterwards.
C12_CompletedNeverReturns ==
  [][(profile # Null /\ profile' # Null)
       => \A id \in Ids(profile'.completedChallenges) :
            /\ Count(profile'.completedChallenges, id) <= 1
            /\ id \in Ids(profile.completedChallenges)
                 => id \notin Ids(profile'.activeChallenges)]_vars

\* C13: when a remote write of an operation fails, the error is recorded in the
\* error field and the in-memory profile is what it was when the operation was
\* called, also when the failing write is the one of the addPoints that
\* completeAchievement, updateAchievementProgress or updateChallengeProgress
\* start after their own write.
C13_FailedWriteLeavesProfile ==
  (/\ last.step = "rejected"
   /\ Root(last.call).op # "fetchProfile")
  => /\ error = RejectedMsg
     /\ profile = Root(last.call).profile

\* C14: an operation invoked while no user is signed in issues no remote
\* request, leaves the in-memory profile unchanged and reports an error.
EngineOperations ==
  {"updateStreak", "addPoints", "completeAchievement", "updateAchievementProgress",
   "joinChallenge", "updateChallengeProgress", "fetchProfile"}

InvokedSignedOut ==
  /\ last.step \in {"await", "return", "threw"}
  /\ last.call.op \in EngineOperations
  /\ last.pre.user = Null

C14_SignedOutRejected ==
  InvokedSignedOut =>
    /\ last.step = "threw"
    /\ Len(pending) = last.pre.requests
    /\ profile = last.pre.profile
    /\ error \in {NotAuthenticatedMsg, NotLoadedMsg}

C14_Witness ==
  /\ InvokedSignedOut
  /\ last.call.op = "updateChallengeProgress"
  /\ last.pre.profile # Null
  /\ last.pre.error = Null
  /\ error = NotLoadedMsg

\* C15: fetchProfile for a user without a persisted profile creates, persists
\* and installs a profile with streakDays 0, longestStreak 0, no lastLogDate,
\* points 0, level 1, the seed achievements uncompleted with progress 0 and no
\* challenges; for a user with a persisted profile it installs that profile and
\* writes nothing.
SeedIds ==
  <<"first-log", "week-streak", "month-streak", "macro-balance", "scan-10",
    "complete-profile">>

IsFreshProfile(p) ==
  /\ p.streakDays = 0 /\ p.longestStreak = 0 /\ p.lastLogDate = Null
  /\ p.points = 0 /\ p.level = 1
  /\ [i \in 1..Len(p.achievements) |-> p.achievements[i].id] = SeedIds
  /\ \A i \in 1..Len(p.achievements) :
       /\ ~p.achievements[i].isCompleted
       /\ p.achievements[i].progress = 0
       /\ p.achievements[i].completedAt = Null
  /\ p.activeChallenges = <<>> /\ p.completedChallenges = <<>>

C15_LoadOrCreate ==
  [][(last'.step = "resolved" /\ last'.call.op = "fetchProfile")
       => IF last'.call.request = "setDoc"
          THEN /\ IsFreshProfile(profile')
               /\ doc' = ToDoc(profile')
               /\ Len(pending') = Len(pending) - 1
          ELSE IF doc # Null
          THEN /\ profile' # Null
               /\ ToDoc(profile') = doc
               /\ doc' = doc
               /\ Len(pending') = Len(pending) - 1
          ELSE /\ doc' = doc
               /\ profile' = profile
               /\ \E i \in 1..Len(pending') :
                    pending'[i].op = "fetchProfile" /\ pending'[i].request = "setDoc"]_vars

C15_Witness ==
  /\ ResolvedOf("fetchProfile")
  /\ last.call.request = "setDoc"
  /\ IsFreshProfile(profile)
  /\ doc = ToDoc(profile)

C15_WitnessPersisted ==
  /\ ResolvedOf("fetchProfile")
  /\ last.call.request = "getDoc"
  /\ profile # Null
  /\ profile.streakDays = 6
  /\ ToDoc(profile) = doc

\* C16: every achievement has 0 <= progress <= targetValue, whatever integer
\* amounts updateAchievementProgress is called with.
ProgressInRange(achs) ==
  \A i \in 1..Len(achs) : achs[i].progress >= 0 /\ achs[i].progress <= achs[i].targetValue

C16_ProgressInRange ==
  /\ profile # Null => ProgressInRange(profile.achievements)
  /\ doc # Null => ProgressInRange(doc.achievements)

\* C17: a challenge's currentProgress stays within 0..targetValue and no step
\* lowers it, whatever integer amounts updateChallengeProgress is called with.
ChallengeProgressInRange(cs) ==
  \A i \in 1..Len(cs) :
    cs[i].currentProgress >= 0 /\ cs[i].currentProgress <= cs[i].targetValue

C17_ChallengeProgressMonotone ==
  [][(profile # Null /\ profile' # Null)
       => /\ ChallengeProgressInRange(profile'.activeChallenges)
          /\ ChallengeProgressInRange(profile'.completedChallenges)
          /\ \A i \in 1..Min(Len(profile.activeChallenges),
                             Len(profile'.activeChallenges)) :
               profile'.activeChallenges[i].id = profile.activeChallenges[i].id
                 => profile'.activeChallenges[i].currentProgress
                      >= profile.activeChallenges[i].currentProgress]_vars

\* C18: an achievement that is completed stays completed and keeps the
\* completedAt it got, in every interleaving of completeAchievement and
\* updateAchievementProgress calls on the same or on different ids.
C18_CompletionIsOneWay ==
  [][(profile # Null /\ profile' # Null)
       => \A i \in 1..Min(Len(profile.achievements), Len(profile'.achievements)) :
            profile.achievements[i].isCompleted
              => /\ profile'.achievements[i].isCompleted
                 /\ profile'.achievements[i].completedAt
                      = profile.achievements[i].completedAt]_vars

\* C19: an updateStreak call made when lastLogDate is already today awards no
\* streak bonus: points and level are after the call what they were before it.
SameDayRun(c) ==
  /\ c.op = "updateStreak"
  /\ c.profile.lastLogDate # Null
  /\ CalendarDay(c.profile.lastLogDate) = CalendarDay(c.today)

C19_SameDayNoBonus ==
  (/\ ResolvedOf("addPoints")
   /\ last.call.parent # Null
   /\ SameDayRun(last.call.parent))
  => /\ profile.points = last.call.parent.profile.points
     /\ profile.level = last.call.parent.profile.level

\* C20: for a profile whose achievements are the seed set, an updateStreak call
\* that yields streakDays >= 7 (>= 30) completes the seed 7-day (30-day)
\* consistency achievement, if it was not completed already.
HasSeedAchievements(p) ==
  [i \in 1..Len(p.achievements) |-> p.achievements[i].id] = SeedIds

C20_SeedStreakAchievementCompleted ==
  (/\ pending = <<>>
   /\ last.step = "resolved"
   /\ last.clean
   /\ Root(last.call).op = "updateStreak"
   /\ HasSeedAchievements(Root(last.call).profile)
   /\ Root(last.call).newStreakDays >= 7
   /\ profile # Null)
  => LET c == Root(last.call)
         week == Find(profile.achievements, "week-streak")
         month == Find(profile.achievements, "month-streak")
     IN /\ profile.achievements[week].isCompleted
        /\ c.newStreakDays >= 30 => profile.achievements[month].isCompleted

\* C21: the bonus updateStreak awards for a continued streak with new value
\* n > 1 is 25 for n = 7, 100 for n = 30, 300 for n = 100, 50 for any other
\* multiple of ten and 5 otherwise; a new streak of 1 (first log, or reset after
\* a gap) gets no bonus.
ExpectedBonus(n) ==
  CASE n = 7 -> 25
    [] n = 30 -> 100
    [] n = 100 -> 300
    [] n \notin {30, 100} /\ n % 10 = 0 -> 50
    [] OTHER -> 5

ContinuedRun(c) ==
  /\ c.op = "updateStreak"
  /\ c.profile.lastLogDate # Null
  /\ CalendarDay(c.profile.lastLogDate) = CalendarDay(c.today) - 1

BonusesOf(c) == {i \in 1..Len(pending) : pending[i].op = "addPoints" /\ pending[i].parent = c}

C21_StreakBonus ==
  /\ (ResolvedOf("updateStreak") /\ ContinuedRun(last.call))
     => /\ last.call.newStreakDays > 1
        /\ Cardinality(BonusesOf(last.call)) = 1
        /\ \A i \in BonusesOf(last.call) :
             pending[i].points = ExpectedBonus(last.call.newStreakDays)
  /\ (ResolvedOf("updateStreak") /\ last.call.newStreakDays = 1)
     => BonusesOf(last.call) = {}
  /\ (/\ ResolvedOf("addPoints")
      /\ last.call.parent # Null
      /\ ContinuedRun(last.call.parent))
     => profile.points = last.call.parent.profile.points
                           + ExpectedBonus(last.call.parent.newStreakDays)

C21_Witness ==
  /\ ResolvedOf("addPoints")
  /\ last.call.parent # Null
  /\ ContinuedRun(last.call.parent)
  /\ last.call.parent.newStreakDays = 100
  /\ profile.points = last.call.parent.profile.points + 300

C21_WitnessReset ==
  /\ ResolvedOf("updateStreak")
  /\ last.call.streakBroken
  /\ last.call.profile.streakDays > 1
  /\ profile.streakDays = 1
  /\ pending = <<>>

\* C22: two addPoints calls with amounts a and b, the second reading the profile
\* before the first's write resolves, can end with points = P + b instead of
\* P + a + b, in the in-memory profile and in the document: every addPoints
\* installs the points it read plus its own amount, whatever was written since.
C22_LostUpdate ==
  (ResolvedOf("addPoints") /\ profile # Null)
  => /\ profile.points = last.call.profile.points + last.call.points
     /\ doc.points = last.call.profile.points + last.call.points

\* Both calls have resolved: the 25 points of the streak bonus that updateStreak
\* started, then the addPoints(b) that had read the profile before it.
C22_Witness ==
  /\ ResolvedOf("addPoints")
  /\ last.call.parent = Null
  /\ last.clean
  /\ pending = <<>>
  /\ last.call.profile.streakDays = 6
  /\ profile.streakDays = 7
  /\ profile.points = last.call.profile.points + last.call.points
  /\ doc.points = profile.points

\* C23: updateAchievementProgress sets progress to min(progress + delta,
\* targetValue); when that is targetValue the profile, the points and the
\* achievement modal end as completeAchievement leaves them from the same
\* state; otherwise only that achievement's progress changes and no points are
\* awarded.
AdvancedTo(c) == Min(c.achievement.progress + c.progressAmount, c.achievement.targetValue)

ReachesTarget(c) == AdvancedTo(c) = c.achievement.targetValue

AsCompleted(c) ==
  LET i == Find(profile.achievements, c.achievementId)
  IN /\ profile.achievements[i].completedAt # Null
     /\ profile.achievements =
          MarkCompleted(c.profile.achievements, c.achievementId,
                        profile.achievements[i].completedAt)
     /\ showAchievementModal
     /\ lastUnlockedAchievement = profile.achievements[i]

AdvanceEndsAsCompleted ==
  /\ (ResolvedOf("updateAchievementProgress") /\ ReachesTarget(last.call))
     => /\ AsCompleted(last.call)
        /\ profile = [last.call.profile EXCEPT !.achievements = profile.achievements]
        /\ Cardinality({i \in 1..Len(pending) :
                          /\ pending[i].op = "addPoints"
                          /\ pending[i].parent = last.call
                          /\ pending[i].points = last.call.achievement.points}) = 1
  /\ (/\ ResolvedOf("addPoints")
      /\ last.call.parent # Null
      /\ last.call.parent.op = "updateAchievementProgress")
     => /\ ReachesTarget(last.call.parent)
        /\ AsCompleted(last.call.parent)
        /\ profile.points = last.call.parent.profile.points
                              + last.call.parent.achievement.points
  /\ (ResolvedOf("updateAchievementProgress") /\ ~ReachesTarget(last.call))
     => LET i == Find(last.call.profile.achievements, last.call.achievementId)
        IN /\ profile = [last.call.profile EXCEPT
                           !.achievements[i].progress = AdvancedTo(last.call)]
           /\ pending = <<>>

\* The same starting state taken through completeAchievement.
CompleteEndsAsCompleted ==
  /\ (ResolvedOf("completeAchievement") /\ last.call.parent = Null)
     => /\ AsCompleted(last.call)
        /\ profile = [last.call.profile EXCEPT !.achievements = profile.achievements]
  /\ (/\ ResolvedOf("addPoints")
      /\ last.call.parent # Null
      /\ last.call.parent.op = "completeAchievement"
      /\ last.call.parent.parent = Null)
     => /\ AsCompleted(last.call.parent)
        /\ profile.points = last.call.parent.profile.points
                              + last.call.parent.achievement.points

\* C23: an advance that reaches targetValue and completeAchievement end in the
\* same profile, points and modal state; a partial advance changes the progress
\* only.
C23_AdvanceMatchesComplete == AdvanceEndsAsCompleted /\ CompleteEndsAsCompleted

C23_Witness ==
  /\ ResolvedOf("addPoints")
  /\ last.call.parent # Null
  /\ last.call.parent.op = "updateAchievementProgress"
  /\ ReachesTarget(last.call.parent)
  /\ profile.points = last.call.parent.profile.points + 10
  /\ showAchievementModal

C23_WitnessPartial ==
  /\ ResolvedOf("updateAchievementProgress")
  /\ ~ReachesTarget(last.call)
  /\ profile # last.call.profile

\* C24: in every reachable state each achievement is completed if and only if
\* its progress is its targetValue.
CompletedIffAtTarget(achs) ==
  \A i \in 1..Len(achs) : achs[i].isCompleted <=> achs[i].progress = achs[i].targetValue

C24_CompletedIffAtTarget ==
  /\ profile # Null => CompletedIffAtTarget(profile.achievements)
  /\ doc # Null => CompletedIffAtTarget(doc.achievements)

C24_Witness ==
  /\ ResolvedOf("completeAchievement")
  /\ profile # Null
  /\ \E i \in 1..Len(profile.achievements) :
       /\ profile.achievements[i].isCompleted
       /\ profile.achievements[i].targetValue > 1
       /\ profile.achievements[i].progress = profile.achievements[i].targetValue
       /\ doc.achievements[i].isCompleted

\* C25: the reward of an achievement is added to the points at most once, also
\* when two completing calls for the same id are in flight together: a call
\* awards the reward only for an achievement that is not yet completed.
AwardsReward(c) ==
  \/ c.op = "completeAchievement"
  \/ c.op = "updateAchievementProgress" /\ c.isNowCompleted

C25_RewardOnce ==
  [][(/\ last'.step = "resolved"
      /\ AwardsReward(last'.call)
      /\ profile # Null)
       => ~profile.achievements[Find(profile.achievements,
                                     last'.call.achievementId)].isCompleted]_vars

\* C26: after every operation that completes without a persistence error the
\* in-memory profile equals the persisted document field by field; in
\* particular joinChallenge's arrayUnion and its local append give the same
\* activeChallenges.
C26_ProfileMatchesDocument ==
  (/\ last.step = "resolved"
   /\ last.clean
   /\ pending = <<>>
   /\ profile # Null)
  => /\ ToDoc(profile) = doc
     /\ ToDocChallenges(profile.activeChallenges) = doc.activeChallenges

\* C27: in every reachable state the challenge ids are unique within
\* activeChallenges, unique within completedChallenges, and no id is in both.
C27_ChallengeIdsUnique ==
  profile # Null =>
    /\ \A id \in Ids(profile.activeChallenges) :
         /\ Count(profile.activeChallenges, id) = 1
         /\ id \notin Ids(profile.completedChallenges)
    /\ \A id \in Ids(profile.completedChallenges) :
         Count(profile.completedChallenges, id) = 1

\* C28: lastLogDate is absent exactly when streakDays = 0, and after a
\* successful updateStreak call lastLogDate is the day of the call with the time
\* of day stripped and streakDays >= 1.
C28_LastLogDateAndStreak ==
  /\ profile # Null => (profile.lastLogDate = Null <=> profile.streakDays = 0)
  /\ doc # Null => (doc.lastLogDate = Null <=> doc.streakDays = 0)
  /\ (InvokedOf("updateStreak") /\ last.step = "await")
     => LET c == pending[Len(pending)]
        IN /\ CalendarDay(c.today) = CalendarDay(<<now>>)
           /\ c.today[1] % TicksPerDay = 0
  /\ (ResolvedOf("updateStreak") /\ profile # Null)
     => /\ profile.lastLogDate = last.call.today
        /\ doc.lastLogDate = Timestamp_fromDate(last.call.today)
        /\ profile.streakDays >= 1
        /\ doc.streakDays >= 1

C28_Witness ==
  /\ ResolvedOf("updateStreak")
  /\ profile # Null
  /\ last.call.profile.lastLogDate = Null
  /\ last.call.profile.streakDays = 0
  /\ profile.streakDays = 1
  /\ profile.lastLogDate = last.call.today
  /\ last.call.today[1] < now

\* C29: in the food-log store every meal in local state has totalCalories,
\* totalProtein, totalCarbs and totalFat equal to the sums over its foodItems,
\* after any sequence and any interleaving of addFoodItem, updateFoodItem and
\* deleteFoodItem calls on meals that started with zero totals and no items.
TotalsMatchItems(m) ==
  /\ m.totalCalories = SumField(m.foodItems, "calories")
  /\ m.totalProtein = SumField(m.foodItems, "protein")
  /\ m.totalCarbs = SumField(m.foodItems, "carbs")
  /\ m.totalFat = SumField(m.foodItems, "fat")

C29_MealTotalsMatchItems ==
  \A i \in 1..Len(meals) : TotalsMatchItems(meals[i])

\* C30: in the food-log store, after every completed fetchMealsForDate,
\* updateMeal, deleteMeal, addFoodItem, updateFoodItem or deleteFoodItem,
\* dailyTotals equals the sum of the totals of the meals in local state.
FoodOperations ==
  {"fetchMealsForDate", "updateMeal", "deleteMeal",
   "addFoodItem", "updateFoodItem", "deleteFoodItem"}

SumOfMealTotals(ms) ==
  [calories |-> SumField(ms, "totalCalories"), protein |-> SumField(ms, "totalProtein"),
   carbs |-> SumField(ms, "totalCarbs"), fat |-> SumField(ms, "totalFat")]

C30_DailyTotalsMatchMeals ==
  (last.step = "resolved" /\ Root(last.call).op \in FoodOperations)
    => dailyTotals = SumOfMealTotals(meals)

====
